---------------------------- MODULE Spec2Model ----------------------------
(***************************************************************************)
(* Layer-wise latent distributions of the deep variational transformer:   *)
(* NeuralPrior (p(z|X)) and NeuralPosterior (q(z|X,Y)) of                  *)
(* onmt/modules/DeepVariationalTransformer/Inference.py.                   *)
(*                                                                         *)
(* Tensors are exact: a scalar is a rational, one of the IEEE non-finite   *)
(* values, or a term over exp (exp is transcendental, so exp(x) and        *)
(* exp(x)-1 of a finite x stay symbolic).  Lists and tensor axes are       *)
(* 1-based here and 0-based in the source.                                 *)
(***************************************************************************)
EXTENDS Integers, Sequences, FiniteSets, TLC

\* ------------------------------------------------------------------ bounds
MaxLayers == 2      \* opt.layers ranges over 0..MaxLayers
MaxLen == 2         \* a batch holds sequences of 0..MaxLen token ids

\* onmt.Constants.PAD, the padding id the masks test for
PAD == 0

\* token ids: the padding id and one id that is not padding
Tokens == {PAD, PAD + 1}

\* the batch sizes, the widths opt.model_size and the parameter draws of a
\* constructor that are explored
BatchSizes == {1, 2}

ModelSizes == {2}

Thetas == {1}

\* ------------------------------------------------------------------ scalars
Abs(i) == IF i < 0 THEN -i ELSE i

Sign(i) == IF i < 0 THEN -1 ELSE IF i = 0 THEN 0 ELSE 1

RECURSIVE GCD(_, _)
GCD(a, b) == IF b = 0 THEN a ELSE GCD(b, a % b)

\* the rational n/d (d # 0) in lowest terms with a positive denominator
Q(n, d) ==
    IF d = 1 THEN [k |-> "q", n |-> n, d |-> 1, a |-> <<>>]
    ELSE LET g == GCD(Abs(n), Abs(d))
             s == Sign(d)
         IN  [k |-> "q", n |-> (s * n) \div g, d |-> (s * d) \div g, a |-> <<>>]

NaN == [k |-> "nan", n |-> 0, d |-> 0, a |-> <<>>]

Inf(s) == [k |-> "inf", n |-> s, d |-> 0, a |-> <<>>]

Term(op, args) == [k |-> op, n |-> 0, d |-> 1, a |-> args]

Finite(x) == x.k \notin {"nan", "inf"}

\* x + y of IEEE arithmetic
Add(x, y) ==
    IF x.k = "q" /\ y.k = "q" THEN Q(x.n * y.d + y.n * x.d, x.d * y.d)
    ELSE IF x.k = "nan" \/ y.k = "nan" THEN NaN
    ELSE IF x.k = "inf" /\ y.k = "inf" THEN (IF x.n = y.n THEN x ELSE NaN)
    ELSE IF x.k = "inf" THEN x
    ELSE IF y.k = "inf" THEN y
    ELSE Term("add", <<x, y>>)

\* w * x of IEEE arithmetic, w a rational (a weight or a scale factor)
Mul(w, x) ==
    IF x.k = "q" THEN Q(w.n * x.n, w.d * x.d)
    ELSE IF x.k = "nan" THEN NaN
    ELSE IF x.k = "inf" THEN (IF w.n = 0 THEN NaN ELSE Inf(Sign(w.n) * x.n))
    ELSE IF w.n = 0 THEN Q(0, 1)
    ELSE Term("mul", <<w, x>>)

\* x / c of IEEE arithmetic, c a count (an integer >= 0): 0/0 is NaN and
\* x/0 is an infinity
Div(x, c) ==
    IF c # 0 THEN Mul(Q(1, c), x)
    ELSE IF x.k = "q" /\ x.n # 0 THEN Inf(Sign(x.n))
    ELSE IF x.k = "inf" THEN x
    ELSE NaN

\* torch.relu
relu(x) ==
    IF x.k = "q" THEN (IF x.n > 0 THEN x ELSE Q(0, 1))
    ELSE IF x.k = "nan" THEN NaN
    ELSE IF x.k = "inf" THEN (IF x.n > 0 THEN x ELSE Q(0, 1))
    ELSE Term("relu", <<x>>)

\* F.elu with alpha = 1: x for x > 0, exp(x) - 1 otherwise
elu(x) ==
    IF x.k = "q" THEN (IF x.n >= 0 THEN x ELSE Term("expm1", <<x>>))
    ELSE IF x.k = "nan" THEN NaN
    ELSE IF x.k = "inf" THEN (IF x.n > 0 THEN x ELSE Q(-1, 1))
    ELSE Term("elu", <<x>>)

\* torch.exp
exp(x) ==
    IF x.k = "nan" THEN NaN
    ELSE IF x.k = "inf" THEN (IF x.n > 0 THEN x ELSE Q(0, 1))
    ELSE IF x.k = "q" /\ x.n = 0 THEN Q(1, 1)
    ELSE Term("exp", <<x>>)

\* ------------------------------------------------------------------ tensors
\* A vector is a sequence of scalars.  A tensor of shape T x B x H is
\* [T, B, H, at], at[t][b] the vector at position t of batch element b;
\* a matrix of shape B x H is a sequence of B vectors; a batch of token ids
\* (B x L) is a sequence of B rows of L ids.
\* the sequence <<f(1), ..., f(n)>>
RECURSIVE Tabulate(_, _)
Tabulate(f(_), n) == IF n = 0 THEN <<>> ELSE Append(Tabulate(f, n - 1), f(n))

VecAdd(x, y) == Tabulate(LAMBDA h : Add(x[h], y[h]), Len(x))

VecMap(f(_), x) == Tabulate(LAMBDA h : f(x[h]), Len(x))

SeqLen(input) == Len(input[1])

\* input[:, :-1] in place of input[:, 1:] : the last column dropped
DropLastColumn(input) ==
    Tabulate(LAMBDA b : SubSeq(input[b], 1, Len(input[b]) - 1), Len(input))

\* input[:, 1:] : every row without its column 0
DropFirstColumn(input) ==
    Tabulate(LAMBDA b : SubSeq(input[b], 2, Len(input[b])), Len(input))

\* input.ne(PAD) in place of input.eq(PAD) : the mask inverted
pad_mask_ne(input) ==
    [T |-> SeqLen(input), B |-> Len(input), H |-> 1,
     at |-> Tabulate(LAMBDA t : Tabulate(LAMBDA b : input[b][t] # PAD, Len(input)),
                     SeqLen(input))]

\* a mask that marks no position, as of a padding id no input holds
pad_mask_none(input) ==
    [T |-> SeqLen(input), B |-> Len(input), H |-> 1,
     at |-> Tabulate(LAMBDA t : Tabulate(LAMBDA b : FALSE, Len(input)),
                     SeqLen(input))]

\* input.eq(onmt.Constants.PAD).transpose(0, 1).unsqueeze(2) : T x B x 1,
\* true where the id is the padding id
pad_mask(input) ==
    [T |-> SeqLen(input), B |-> Len(input), H |-> 1,
     at |-> Tabulate(LAMBDA t : Tabulate(LAMBDA b : input[b][t] = PAD, Len(input)),
                     SeqLen(input))]

\* ------------------------------------------------------------------ Linear
\* XavierLinear(d_in, d_out): a weight matrix d_out x d_in and a bias, here
\* small integers fixed by the parameter draw theta and the layer's tag
XavierLinear(d_in, d_out, theta, tag) ==
    [weight |-> Tabulate(LAMBDA r : Tabulate(LAMBDA c :
                    Q(((theta + tag + r + 2 * c) % 3) - 1, 1), d_in), d_out),
     bias   |-> Tabulate(LAMBDA r : Q((theta + tag + r) % 2, 1), d_out)]

RECURSIVE Dot(_, _, _)
Dot(w, x, c) == IF c = 0 THEN Q(0, 1) ELSE Add(Dot(w, x, c - 1), Mul(w[c], x[c]))

\* lin(x) = W x + b for one vector x
Linear(lin, x) ==
    Tabulate(LAMBDA r : Add(Dot(lin.weight[r], x, Len(x)), lin.bias[r]),
             Len(lin.bias))

\* ------------------------------------------------------------------ pooling
RECURSIVE MaskedSum(_, _, _, _, _)
MaskedSum(context, mask, b, h, t) ==
    IF t = 0 THEN Q(0, 1)
    ELSE Add(MaskedSum(context, mask, b, h, t - 1),
             Mul(IF mask.at[t][b] THEN Q(0, 1) ELSE Q(1, 1),
                 context.at[t][b][h]))

\* onmt.modules.Utilities.mean_with_mask_backpropable(context, mask):
\* context T x B x H, mask T x B x 1; the mean over the T axis with a
\* masked position weighing zero in the sum and in the count.  B x H.
mean_with_mask(context, mask) ==
    Tabulate(LAMBDA b : Tabulate(LAMBDA h :
        Div(MaskedSum(context, mask, b, h, context.T),
            Cardinality({t \in 1..context.T : ~mask.at[t][b]})),
        context.H), context.B)

\* ------------------------------------------------------------------ Normal
\* torch.distributions.normal.Normal(loc, scale); the .float() casts widen
\* and keep every value
Normal(loc, scale) == [mean |-> loc, stddev |-> scale]

\* ------------------------------------------------------------------ state
VARIABLES
    opt,            \* the Configuration shared by both components
    backbone_skew,  \* layers the backbone's stack has beyond opt.layers
    prior,          \* the NeuralPrior instance, once constructed
    posterior,      \* the NeuralPosterior instance, once constructed
    last            \* the latest call: its arguments, what it did, its outcome

vars == <<opt, backbone_skew, prior, posterior, last>>

NoModule == [built |-> FALSE]

Idle == [op |-> "idle"]

NoError == [type |-> "none", args |-> <<>>]

\* ------------------------------------------------------------------ backbone
\* TransformerEncoder(encoder_opt, embedding, positional_encoder): the
\* embedding table, the positional encoding and the layers' weights are the
\* parameter draw theta
TransformerEncoder(encoder_opt, theta) ==
    [layers |-> encoder_opt.layers, model_size |-> encoder_opt.model_size,
     theta |-> theta]

\* the number of per-layer contexts a call of the backbone returns
StackDepth(enc) ==
    IF enc.layers + backbone_skew < 0 THEN 0 ELSE enc.layers + backbone_skew

\* encoder(input, freeze_embedding=..., return_stack=True): the context
\* stack, one T x B x H tensor per layer, a function of the ids, the
\* position, the layer and the parameters (freeze_embedding blocks a
\* gradient and changes no value), and the backbone's own mask
encoder_forward(enc, input, freeze_embedding, return_stack) ==
    LET layer(i) ==
            [T |-> SeqLen(input), B |-> Len(input), H |-> enc.model_size,
             at |-> Tabulate(LAMBDA t : Tabulate(LAMBDA b : Tabulate(LAMBDA h :
                        Q(((3 * input[b][t] + t + 2 * i + h + enc.theta) % 5) - 2, 1),
                        enc.model_size), Len(input)), SeqLen(input))]
        stack == Tabulate(layer, StackDepth(enc))
    IN  <<IF return_stack THEN stack ELSE SubSeq(stack, Len(stack), Len(stack)),
          pad_mask(input)>>

\* ------------------------------------------------------------------ NeuralPrior
\* NeuralPrior.__init__(opt, embedding, positional_encoder)
NeuralPrior_init(o, theta) ==
    [built |-> TRUE,
     opt |-> o,
     var_ignore_first_source_token |-> o.var_ignore_first_source_token,
     encoder |-> TransformerEncoder(o, theta),
     projector |-> <<>>,
     mean_predictor |->
        Tabulate(LAMBDA i : XavierLinear(o.model_size, o.model_size, theta, 3 * i),
                 o.layers),
     var_predictor |->
        Tabulate(LAMBDA i : XavierLinear(o.model_size, o.model_size, theta, 3 * i + 1),
                 o.layers),
     context_projector |->
        Tabulate(LAMBDA i : XavierLinear(o.model_size, o.model_size, theta, 3 * i + 2),
                 o.layers)]

\* the first token dropped only by a call that follows no call of the prior
PriorInputOnce(self, input) ==
    IF self.var_ignore_first_source_token /\ last.op # "NeuralPrior.forward"
    THEN DropFirstColumn(input) ELSE input

\* the input the prior encodes and masks (lines 96-97)
PriorInput(self, input) ==
    IF self.var_ignore_first_source_token THEN DropFirstColumn(input) ELSE input

\* torch.relu(self.context_projector[i](context_)) + context_, per position
PriorRefine(lin, context_) ==
    [context_ EXCEPT !.at =
        Tabulate(LAMBDA t : Tabulate(LAMBDA b :
            VecAdd(VecMap(relu, Linear(lin, context_.at[t][b])), context_.at[t][b]),
            context_.B), context_.T)]

\* mean, var = exp(0.5 * var), Normal(mean.float(), var.float()) of a
\* pooled B x H context
Predict(mean_predictor, var_predictor, context) ==
    LET mean == Tabulate(LAMBDA b : Linear(mean_predictor, context[b]), Len(context))
        var  == Tabulate(LAMBDA b : Linear(var_predictor, context[b]), Len(context))
        half(x) == exp(Mul(Q(1, 2), x))
    IN  Normal(mean, Tabulate(LAMBDA b : VecMap(half, var[b]), Len(var)))

\* a loop that stops one layer early
LoopRangeShort(context_stack) == 1..(Len(context_stack) - 1)

\* the layers the loop `for i, context_ in enumerate(context_stack)` visits
LoopRange(context_stack) == 1..Len(context_stack)

\* the loop of NeuralPrior.forward: self.context_projector[i] is an
\* IndexError beyond the ModuleList's length
RECURSIVE PriorLoop(_, _, _, _, _)
PriorLoop(self, context_stack, mask, i, acc) ==
    IF i \notin LoopRange(context_stack) THEN acc
    ELSE IF i > Len(self.context_projector)
    THEN [acc EXCEPT !.raised = TRUE,
                     !.error = [type |-> "IndexError", args |-> <<"index out of range">>]]
    ELSE LET context_ == PriorRefine(self.context_projector[i], context_stack[i])
             context  == mean_with_mask(context_, mask)
             p_z_     == Predict(self.mean_predictor[i], self.var_predictor[i], context)
         IN  PriorLoop(self, context_stack, mask, i + 1,
                [acc EXCEPT !.pooled_from = Append(@, context_),
                            !.encoder_meaning = Append(@, context),
                            !.p_z = Append(@, p_z_)])

\* NeuralPrior.forward(input, context): what the call did (the backbone's
\* call, the mask, the tensors pooled and their pooled vectors per layer) and
\* its outcome: a raise, or the pair (encoder_meaning, p_z) returned
NeuralPrior_forward(self, input, context) ==
    LET input1 == PriorInput(self, input)
        context_stack == encoder_forward(self.encoder, input1, FALSE, TRUE)[1]
        mask == pad_mask(input1)
        loop == PriorLoop(self, context_stack, mask, 1,
                    [raised |-> FALSE, error |-> NoError, pooled_from |-> <<>>,
                     encoder_meaning |-> <<>>, p_z |-> <<>>])
    IN  [raised |-> loop.raised, error |-> loop.error,
         enc_call |-> [input |-> input1, freeze_embedding |-> FALSE,
                       return_stack |-> TRUE],
         mask |-> mask, stack_len |-> Len(context_stack),
         pooled_from |-> loop.pooled_from, pooled |-> loop.encoder_meaning,
         ret |-> IF loop.raised THEN <<>> ELSE <<loop.encoder_meaning, loop.p_z>>]

\* ------------------------------------------------------------------ NeuralPosterior
\* the loop of NeuralPosterior.__init__: layer i gets its projector when
\* opt.var_posterior_combine is 'concat' or 'sum', and raises a bare
\* NotImplementedError otherwise
RECURSIVE PosteriorInitLoop(_, _, _, _)
PosteriorInitLoop(o, theta, i, self) ==
    IF i > o.layers THEN [raised |-> FALSE, error |-> NoError, self |-> self]
    ELSE IF o.var_posterior_combine \notin {"concat", "sum"}
    THEN [raised |-> TRUE,
          error |-> [type |-> "NotImplementedError", args |-> <<>>],
          self |-> NoModule]
    ELSE PosteriorInitLoop(o, theta, i + 1,
            [self EXCEPT
                !.projector = Append(@,
                    XavierLinear(o.model_size * 1, o.model_size, theta, 3 * i + 2)),
                !.mean_predictor = Append(@,
                    XavierLinear(o.model_size, o.model_size, theta, 3 * i)),
                !.var_predictor = Append(@,
                    XavierLinear(o.model_size, o.model_size, theta, 3 * i + 1))])

\* NeuralPosterior.__init__(opt, embedding, positional_encoder, prior=None)
NeuralPosterior_init(o, theta) ==
    PosteriorInitLoop(o, theta, 1,
        [built |-> TRUE,
         opt |-> o,
         var_ignore_first_target_token |-> o.var_ignore_first_target_token,
         var_ignore_first_source_token |-> o.var_ignore_first_source_token,
         posterior_combine |-> o.var_posterior_combine,
         encoder |-> TransformerEncoder(o, theta),
         projector |-> <<>>, mean_predictor |-> <<>>, var_predictor |-> <<>>])

\* the target the posterior encodes and masks (lines 200-201)
PosteriorTarget(self, input_tgt) ==
    IF self.var_ignore_first_target_token THEN DropFirstColumn(input_tgt)
    ELSE input_tgt

\* the source after lines 203-204; nothing below reads it
PosteriorSource(self, input_src) ==
    IF self.var_ignore_first_source_token THEN DropFirstColumn(input_src)
    ELSE input_src

\* context = encoder_context_ + decoder_context_ (line 225, commented out in
\* the source): the 'sum' combination with the source's encoder_meaning
PosteriorContextSum(encoder_meaning, input_src, i, decoder_context_) ==
    IF i <= Len(encoder_meaning) /\ Len(encoder_meaning[i]) = Len(decoder_context_)
    THEN Tabulate(LAMBDA b : VecAdd(encoder_meaning[i][b], decoder_context_[b]),
                  Len(decoder_context_))
    ELSE decoder_context_

\* context = decoder_context_ (line 226): the pooled target alone, the
\* combination with the source's encoder_meaning being commented out
PosteriorContext(encoder_meaning, input_src, i, decoder_context_) ==
    decoder_context_

\* the loop of NeuralPosterior.forward: self.projector[i] is an IndexError
\* beyond the ModuleList's length
RECURSIVE PosteriorLoop(_, _, _, _, _, _, _)
PosteriorLoop(self, encoder_meaning, input_src, decoder_context, tgt_mask, i, acc) ==
    IF i \notin LoopRange(decoder_context) THEN acc
    ELSE IF i > Len(self.projector)
    THEN [acc EXCEPT !.raised = TRUE,
                     !.error = [type |-> "IndexError", args |-> <<"index out of range">>]]
    ELSE LET decoder_context_ == mean_with_mask(decoder_context[i], tgt_mask)
             context0 == PosteriorContext(encoder_meaning, input_src, i, decoder_context_)
             context  == Tabulate(LAMBDA b :
                            VecMap(elu, Linear(self.projector[i], context0[b])),
                            Len(context0))
             q_z_     == Predict(self.mean_predictor[i], self.var_predictor[i], context)
         IN  PosteriorLoop(self, encoder_meaning, input_src, decoder_context,
                tgt_mask, i + 1,
                [acc EXCEPT !.pooled_from = Append(@, decoder_context[i]),
                            !.pooled = Append(@, decoder_context_),
                            !.q_z = Append(@, q_z_)])

\* NeuralPosterior.forward(encoder_meaning, input_src, input_tgt): what the
\* call did and its outcome: a raise, or the list q_z returned
NeuralPosterior_forward(self, encoder_meaning, input_src, input_tgt) ==
    LET input_tgt1 == PosteriorTarget(self, input_tgt)
        input_src1 == PosteriorSource(self, input_src)
        decoder_context == encoder_forward(self.encoder, input_tgt1, TRUE, TRUE)[1]
        tgt_mask == pad_mask(input_tgt1)
        loop == PosteriorLoop(self, encoder_meaning, input_src1, decoder_context,
                    tgt_mask, 1,
                    [raised |-> FALSE, error |-> NoError, pooled_from |-> <<>>,
                     pooled |-> <<>>, q_z |-> <<>>])
    IN  [raised |-> loop.raised, error |-> loop.error,
         enc_call |-> [input |-> input_tgt1, freeze_embedding |-> TRUE,
                       return_stack |-> TRUE],
         mask |-> tgt_mask, stack_len |-> Len(decoder_context),
         pooled_from |-> loop.pooled_from, pooled |-> loop.pooled,
         ret |-> IF loop.raised THEN <<>> ELSE loop.q_z]

\* ------------------------------------------------------------------ inputs
Opts ==
    [layers : 0..MaxLayers, model_size : ModelSizes,
     var_ignore_first_source_token : BOOLEAN,
     var_ignore_first_target_token : BOOLEAN,
     var_posterior_combine : {"concat", "sum", "unsupported"}]

\* batches of token ids: B rows of one length L
Inputs ==
    UNION {[1..B -> [1..L -> Tokens]] : <<B, L>> \in BatchSizes \X (0..MaxLen)}

\* what a caller passes as the posterior's source
Sources == {x \in Inputs : Len(x) = 1 /\ SeqLen(x) = 1}

\* what a caller passes as the prior's `context`
Contexts == {"none", "stale"}

\* what a caller passes as the posterior's encoder_meaning: nothing, or
\* what the prior returns for the source
EncoderMeanings(input_src) ==
    {<<>>} \cup
    (IF prior.built
     THEN {NeuralPrior_forward(prior, input_src, "none").pooled}
     ELSE {})

ForwardOps == {"NeuralPrior.forward", "NeuralPosterior.forward"}

\* ------------------------------------------------------------------ actions
Init ==
    /\ opt \in Opts
    /\ backbone_skew = 0
    /\ prior = NoModule
    /\ posterior = NoModule
    /\ last = Idle

\* the orchestrator builds the prior
ConstructPrior ==
    /\ ~prior.built
    /\ \E theta \in Thetas : prior' = NeuralPrior_init(opt, theta)
    /\ last' = [op |-> "NeuralPrior.__init__", raised |-> FALSE, error |-> NoError]
    /\ UNCHANGED <<opt, backbone_skew, posterior>>

\* the orchestrator builds the posterior; a raise leaves no instance
ConstructPosterior ==
    /\ ~posterior.built
    /\ \E theta \in Thetas :
         LET r == NeuralPosterior_init(opt, theta)
         IN  /\ posterior' = IF r.raised THEN posterior ELSE r.self
             /\ last' = [op |-> "NeuralPosterior.__init__", raised |-> r.raised,
                         error |-> r.error]
    /\ UNCHANGED <<opt, backbone_skew, prior>>

\* a forward call of the prior by a caller that holds no earlier result
PriorForward ==
    /\ prior.built
    /\ last = Idle
    /\ \E input \in Inputs, context \in Contexts :
         last' = [op |-> "NeuralPrior.forward", calls |-> 1,
                  args |-> [input |-> input, context |-> context],
                  res |-> NeuralPrior_forward(prior, input, context)]
    /\ UNCHANGED <<opt, backbone_skew, prior, posterior>>

\* the same call a second time, right after it returned or raised
PriorForwardAgain ==
    /\ last.op = "NeuralPrior.forward"
    /\ last.calls = 1
    /\ last' = [last EXCEPT
                 !.calls = 2,
                 !.res = NeuralPrior_forward(prior, last.args.input, last.args.context)]
    /\ UNCHANGED <<opt, backbone_skew, prior, posterior>>

\* a forward call of the posterior by a caller that holds no earlier result
PosteriorForward ==
    /\ posterior.built
    /\ last = Idle
    /\ \E input_src \in Sources :
         \E encoder_meaning \in EncoderMeanings(input_src), input_tgt \in Inputs :
            last' = [op |-> "NeuralPosterior.forward", calls |-> 1,
                     args |-> [encoder_meaning |-> encoder_meaning,
                               input_src |-> input_src, input_tgt |-> input_tgt],
                     res |-> NeuralPosterior_forward(posterior, encoder_meaning,
                                                     input_src, input_tgt)]
    /\ UNCHANGED <<opt, backbone_skew, prior, posterior>>

\* the same call a second time, right after it returned or raised
PosteriorForwardAgain ==
    /\ last.op = "NeuralPosterior.forward"
    /\ last.calls = 1
    /\ last' = [last EXCEPT
                 !.calls = 2,
                 !.res = NeuralPosterior_forward(posterior, last.args.encoder_meaning,
                            last.args.input_src, last.args.input_tgt)]
    /\ UNCHANGED <<opt, backbone_skew, prior, posterior>>

\* the caller drops what the latest call returned or raised
Discard ==
    /\ last.op # "idle"
    /\ last' = Idle
    /\ UNCHANGED <<opt, backbone_skew, prior, posterior>>

Next ==
    \/ ConstructPrior
    \/ ConstructPosterior
    \/ PriorForward
    \/ PriorForwardAgain
    \/ PosteriorForward
    \/ PosteriorForwardAgain
    \/ Discard

Spec == Init /\ [][Next]_vars

\* the same program over a backbone whose stack may be one layer shorter or
\* longer than opt.layers
InitAnyStack ==
    /\ opt \in Opts
    /\ backbone_skew \in {-1, 0, 1}
    /\ prior = NoModule
    /\ posterior = NoModule
    /\ last = Idle

SpecAnyStack == InitAnyStack /\ [][Next]_vars

\* ------------------------------------------------------------------ properties
PriorCalled == last.op = "NeuralPrior.forward"

PosteriorCalled == last.op = "NeuralPosterior.forward"

Returned == last.op \in ForwardOps /\ ~last.res.raised

\* the list of distributions the latest forward call returned
Dists == IF PriorCalled THEN last.res.ret[2] ELSE last.res.ret

\* the positions of batch element b of `input` that are not padding
RealPositions(input, b) == {t \in 1..SeqLen(input) : input[b][t] # PAD}

RECURSIVE SumOver(_, _)
SumOver(f(_), S) ==
    IF S = {} THEN Q(0, 1)
    ELSE LET x == CHOOSE y \in S : TRUE
         IN  Add(f(x), SumOver(f, S \ {x}))

ArithmeticMean(f(_), S) == Mul(Q(1, Cardinality(S)), SumOver(f, S))

\* C1: a forward call that returns normally returns lists of exactly
\* opt.layers entries: encoder_meaning and p_z of the prior, q_z of the
\* posterior.
LayerAlignment ==
    /\ (PriorCalled /\ ~last.res.raised) =>
          /\ Len(last.res.ret[1]) = opt.layers
          /\ Len(last.res.ret[2]) = opt.layers
    /\ (PosteriorCalled /\ ~last.res.raised) => Len(last.res.ret) = opt.layers

LayerAlignmentWitness ==
    /\ PriorCalled
    /\ ~last.res.raised
    /\ opt.layers = MaxLayers
    /\ SeqLen(last.res.enc_call.input) >= 1
    /\ Len(last.res.ret[2]) = MaxLayers

\* C2: no NeuralPosterior instance exists whose var_posterior_combine is
\* neither 'concat' nor 'sum', whatever the layer count: its construction
\* has failed.
PosteriorRejectsUnsupported ==
    posterior.built => opt.var_posterior_combine \in {"concat", "sum"}

\* C3: no NeuralPrior instance exists whose var_posterior_combine is neither
\* 'concat' nor 'sum': its construction has been rejected.
PriorRejectsUnsupported ==
    prior.built => opt.var_posterior_combine \in {"concat", "sum"}

\* C4: a forward call whose backbone returned a stack of a length other than
\* opt.layers has raised; it returned no list of distributions.
StackMismatchIsFatal ==
    (last.op \in ForwardOps /\ last.res.stack_len # opt.layers) => last.res.raised

\* `used` is `input` without its column 0 when `flag` holds and `input`
\* itself otherwise, and `mask` marks exactly the padding ids of `used`
TrimmedAs(input, flag, used, mask) ==
    LET off == IF flag THEN 1 ELSE 0
        K == SeqLen(input) - off
    IN  /\ Len(used) = Len(input)
        /\ \A b \in 1..Len(input) :
              /\ Len(used[b]) = K
              /\ \A t \in 1..K : used[b][t] = input[b][t + off]
        /\ mask.T = K
        /\ mask.B = Len(input)
        /\ \A t \in 1..K, b \in 1..Len(input) :
              mask.at[t][b] = (used[b][t] = PAD)

\* C5: for an input of length L >= 1 the backbone is invoked on the trailing
\* L-1 tokens, in order, when the first-token flag is set (the source flag
\* for the prior, the target flag for the posterior's target) and on all L
\* tokens otherwise, and the padding mask is that of the same sequence.
FirstTokenTrimming ==
    /\ (PriorCalled /\ SeqLen(last.args.input) >= 1) =>
          TrimmedAs(last.args.input, opt.var_ignore_first_source_token,
                    last.res.enc_call.input, last.res.mask)
    /\ (PosteriorCalled /\ SeqLen(last.args.input_tgt) >= 1) =>
          TrimmedAs(last.args.input_tgt, opt.var_ignore_first_target_token,
                    last.res.enc_call.input, last.res.mask)

FirstTokenTrimmingWitness ==
    /\ PosteriorCalled
    /\ opt.var_ignore_first_target_token
    /\ SeqLen(last.args.input_tgt) = MaxLen
    /\ last.args.input_tgt[1][1] = PAD
    /\ last.args.input_tgt[1][MaxLen] # PAD
    /\ SeqLen(last.res.enc_call.input) = MaxLen - 1

\* C6: for every layer and every batch element with a position that is not
\* padding, the pooled vector is the arithmetic mean of the per-position
\* vectors at exactly the positions whose id in the (trimmed) input is not
\* the padding id.
MaskedPooling ==
    last.op \in ForwardOps =>
        \A i \in 1..Len(last.res.pooled), b \in 1..Len(last.res.enc_call.input) :
            LET real == RealPositions(last.res.enc_call.input, b)
            IN  real # {} =>
                    \A h \in 1..opt.model_size :
                        last.res.pooled[i][b][h] =
                            ArithmeticMean(
                                LAMBDA t : last.res.pooled_from[i].at[t][b][h], real)

MaskedPoolingWitness ==
    /\ PriorCalled
    /\ ~last.res.raised
    /\ opt.layers >= 1
    /\ \E b \in 1..Len(last.res.enc_call.input) :
          LET e == last.res.enc_call.input
          IN  /\ RealPositions(e, b) # {}
              /\ \E t \in 1..SeqLen(e) :
                    /\ e[b][t] = PAD
                    /\ last.res.pooled_from[1].at[t][b][1] # Q(0, 1)

\* C7: the outcome of a forward call of the posterior is that of a call on
\* the same input_tgt with any other encoder_meaning and input_src.
PosteriorReadsTargetOnly ==
    PosteriorCalled =>
        \A input_src \in Sources :
            \A encoder_meaning \in EncoderMeanings(input_src) :
                LET other == NeuralPosterior_forward(posterior, encoder_meaning,
                                 input_src, last.args.input_tgt)
                IN  /\ other.raised = last.res.raised
                    /\ other.ret = last.res.ret

PosteriorReadsTargetOnlyWitness ==
    /\ PosteriorCalled
    /\ ~last.res.raised
    /\ opt.layers >= 1
    /\ opt.var_ignore_first_source_token
    /\ Len(last.args.input_tgt) = 1
    /\ last.args.encoder_meaning # <<>>
    /\ \E input_src \in Sources : input_src # last.args.input_src

AllPaddingIsNonFinite ==
    Returned =>
        \A b \in 1..Len(last.res.enc_call.input) :
            RealPositions(last.res.enc_call.input, b) = {} =>
                \A i \in 1..Len(Dists), h \in 1..opt.model_size :
                    /\ ~Finite(Dists[i].mean[b][h])
                    /\ ~Finite(Dists[i].stddev[b][h])

AllPaddingIsNonFiniteWitness ==
    /\ Returned
    /\ opt.layers >= 1
    /\ Len(last.res.enc_call.input) = 2
    /\ SeqLen(last.res.enc_call.input) >= 1
    /\ RealPositions(last.res.enc_call.input, 1) = {}
    /\ RealPositions(last.res.enc_call.input, 2) # {}
    /\ Finite(Dists[1].mean[2][1])
    /\ ~Finite(Dists[1].mean[1][1])

\* C10: the error a constructor raises for an unsupported
\* var_posterior_combine carries that value.
ErrorNamesMode ==
    (last.op = "NeuralPosterior.__init__" /\ last.raised) =>
        \E k \in 1..Len(last.error.args) :
            last.error.args[k] = opt.var_posterior_combine

=============================================================================
